---- MODULE Spec2Model ----
(***************************************************************************)
(* NoGo MCTS players of hollow_nogo_MCTS/agent.h (RAVE variant) and        *)
(* hollow_nogo_Parallel_MCTS/agent.h (root-parallel variant).              *)
(*                                                                         *)
(* The board primitives (board.h) are not part of the sources; the board   *)
(* is modelled from the specification's "Board capability (NoGo)" as NoGo  *)
(* on a small grid of BoardCells cells, size_x cells per row.              *)
(* std::default_random_engine is modelled as minstd_rand0 and std::shuffle *)
(* as the Fisher-Yates loop drawing engine() % (i+1).                      *)
(* Floating-point scores are modelled in fixed point, in units of 10^-6.   *)
(***************************************************************************)
EXTENDS Integers, Sequences, FiniteSets, TLC

\* ------------------------------------------------------------------ bounds
\* cells per row of the board (9 in the program)
size_x == 2
\* number of cells of the board (81 in the program)
BoardCells == 5
\* largest value of the property N (simulation count)
MaxN == 5
\* seeds are drawn from 1..MaxSeed
MaxSeed == 6

Pos == 0 .. (BoardCells - 1)
Seeds == 1 .. MaxSeed

\* ------------------------------------------------------------- board (NoGo)
Opponent(w) == IF w = "black" THEN "white" ELSE "black"

\* the cells next to each cell: left, right, above, below
Adjacent ==
    [p \in Pos |->
        { q \in Pos : \/ (q = p + 1 /\ p % size_x # size_x - 1)
                      \/ (q = p - 1 /\ p % size_x # 0)
                      \/ q = p + size_x
                      \/ q = p - size_x }]

Neighbours(p) == Adjacent[p]

RECURSIVE Grow(_, _, _)
Grow(cells, colour, g) ==
    LET nxt == g \cup { q \in Pos : /\ cells[q] = colour
                                    /\ \E r \in g : q \in Neighbours(r) }
    IN  IF nxt = g THEN g ELSE Grow(cells, colour, nxt)

GroupOf(cells, p) == Grow(cells, cells[p], {p})

HasLiberty(cells, g) == \E r \in g : \E q \in Neighbours(r) : cells[q] = "empty"

EmptyBoard == [cells |-> [p \in Pos |-> "empty"], who |-> "black"]

\* board::place(pos) == board::legal : the cell is free and after the
\* placement every touched group (own or opponent's) keeps a liberty.
PlaceLegal(b, p) ==
    /\ p \in Pos
    /\ b.cells[p] = "empty"
    /\ LET c2 == [b.cells EXCEPT ![p] = b.who]
       IN  \A q \in {p} \cup { n \in Neighbours(p) : c2[n] # "empty" } :
               HasLiberty(c2, GroupOf(c2, q))

\* the board after board::place(pos): committed and turn flipped when legal,
\* unchanged otherwise.
PlaceBoard(b, p) ==
    IF PlaceLegal(b, p)
    THEN [cells |-> [b.cells EXCEPT ![p] = b.who], who |-> Opponent(b.who)]
    ELSE b

\* ------------------------------------------------------------ random engine
\* one call of engine(): minstd_rand0, x' = 16807 x mod (2^31 - 1),
\* computed without overflow.
EngineNext(x) ==
    LET t == 16807 * (x % 127773) - 2836 * (x \div 127773)
    IN  IF t > 0 THEN t ELSE t + 2147483647

Swap(vec, i, j) == [vec EXCEPT ![i] = vec[j], ![j] = vec[i]]

\* std::shuffle: for i = 2..n swap vec[i] with vec[j], j drawn from 1..i.
RECURSIVE ShuffleFrom(_, _, _)
ShuffleFrom(vec, e, i) ==
    IF i > Len(vec)
    THEN [vec |-> vec, engine |-> e]
    ELSE LET e2 == EngineNext(e)
             j  == (e2 % i) + 1
         IN  ShuffleFrom(Swap(vec, i, j), e2, i + 1)

\* node::all_space: 0..80 shuffled with the caller's engine.
all_space(e) == ShuffleFrom([k \in 1 .. BoardCells |-> k - 1], e, 2)

\* ------------------------------------------------------------------- scores
\* a float score: value in units of 10^-6, or NaN
Score(v) == [nan |-> FALSE, v |-> v]
NaN == [nan |-> TRUE, v |-> 0]
\* -std::numeric_limits<float>::max()
MinusFltMax == Score(-2000000000)
\* tmp > max_score on floats: false as soon as one side is NaN
Gt(a, b) == ~a.nan /\ ~b.nan /\ a.v > b.v

\* ln(P) in units of 10^-6, P = 1..16
LnMicro(P) ==
    << 0, 693147, 1098612, 1386294, 1609438, 1791759, 1945910, 2079442,
       2197225, 2302585, 2397895, 2484907, 2564949, 2639057, 2708050,
       2772589 >>[P]

RECURSIVE IsqrtIn(_, _, _)
IsqrtIn(n, lo, hi) ==
    IF lo = hi THEN lo
    ELSE LET mid == (lo + hi + 1) \div 2
         IN  IF mid * mid <= n THEN IsqrtIn(n, mid, hi)
                               ELSE IsqrtIn(n, lo, mid - 1)

Isqrt(n) == IsqrtIn(n, 0, 30000)

\* c * sqrt(log(parent->total_cnt) / total_cnt), c = 1.5, in units of 10^-6
\* (total_cnt = 0 gives +inf, or NaN when the logarithm is 0 too)
Explore(ptotal, total) ==
    IF total = 0
    THEN IF ptotal <= 1 THEN NaN ELSE Score(1000000000)
    ELSE Score(100 * Isqrt((225 * LnMicro(ptotal)) \div total))

\* node::win_rate. variant "rave": (1 - RAVE_Beta) * Q + RAVE_Beta * ~Q with
\* RAVE_Beta = 0.5; variant "par": Q.
win_rate(nd, variant, rt, rw) ==
    IF nd.win_cnt = 0 /\ nd.total_cnt = 0 THEN Score(0)
    ELSE IF variant = "par"
         THEN Score((nd.win_cnt * 1000000) \div nd.total_cnt)
         ELSE IF rt[nd.place_pos] = 0 THEN NaN
              ELSE Score((( nd.win_cnt * rt[nd.place_pos]
                          + rw[nd.place_pos] * nd.total_cnt) * 1000000)
                         \div (2 * nd.total_cnt * rt[nd.place_pos]))

Plus(a, b) == IF a.nan \/ b.nan THEN NaN ELSE Score(a.v + b.v)
OneMinus(a) == IF a.nan THEN NaN ELSE Score(1000000 - a.v)

\* node::ucb
ucb(nodes, n, variant, rt, rw) ==
    LET nd == nodes[n]
        pt == nodes[nd.parent].total_cnt
        q  == win_rate(nd, variant, rt, rw)
    IN  IF variant = "par" /\ (pt = 0 \/ nd.total_cnt = 0) THEN q
        ELSE Plus(q, Explore(pt, nd.total_cnt))

\* node::ucb_opponent
ucb_opponent(nodes, n, variant, rt, rw) ==
    LET nd == nodes[n]
        pt == nodes[nd.parent].total_cnt
        q  == OneMinus(win_rate(nd, variant, rt, rw))
    IN  IF variant = "par" /\ (pt = 0 \/ nd.total_cnt = 0) THEN q
        ELSE Plus(q, Explore(pt, nd.total_cnt))

RECURSIVE FirstMaxFrom_last(_, _, _, _)
FirstMaxFrom_last(scores, k, best, bestIdx) ==
    IF k > Len(scores) THEN bestIdx
    ELSE IF ~scores[k].nan /\ ~best.nan /\ scores[k].v >= best.v
         THEN FirstMaxFrom_last(scores, k + 1, scores[k], k)
         ELSE FirstMaxFrom_last(scores, k + 1, best, bestIdx)

\* the loop "if (tmp > max_score) { max_score = tmp; c = child[i]; }":
\* index of the chosen child, 0 when c is never assigned
RECURSIVE FirstMaxFrom(_, _, _, _)
FirstMaxFrom(scores, k, best, bestIdx) ==
    IF k > Len(scores) THEN bestIdx
    ELSE IF Gt(scores[k], best)
         THEN FirstMaxFrom(scores, k + 1, scores[k], k)
         ELSE FirstMaxFrom(scores, k + 1, best, bestIdx)

FirstMax(scores) == FirstMaxFrom(scores, 1, MinusFltMax, 0)

\* --------------------------------------------------------------------- tree
\* node::node(state, m): parent 0 stands for nullptr
NewNode(b, m) ==
    [board |-> b, place_pos |-> m, win_cnt |-> 0, total_cnt |-> 0,
     parent |-> 0, child |-> << >>]

\* the counting loop of node::is_leaf
RECURSIVE CountLegal(_, _)
CountLegal(b, i) ==
    IF i >= BoardCells THEN 0
    ELSE (IF PlaceLegal(b, i) THEN 1 ELSE 0) + CountLegal(b, i + 1)

is_leaf_no_zero_guard(nd) ==
    LET cnt == CountLegal(nd.board, 0)
    IN  ~(Len(nd.child) = cnt)

\* node::is_leaf
is_leaf(nd) ==
    LET cnt == CountLegal(nd.board, 0)
    IN  ~(cnt > 0 /\ Len(nd.child) = cnt)

\* node::select_root_to_leaf, from node curr with the path vec so far
RECURSIVE Descend(_, _, _, _, _, _, _)
Descend(nodes, curr, vec, who, variant, rt, rw) ==
    IF is_leaf(nodes[curr]) THEN vec
    ELSE IF Len(nodes[curr].child) = 0 THEN vec
    ELSE LET ch == nodes[curr].child
             scores == [k \in 1 .. Len(ch) |->
                          IF who = nodes[curr].board.who
                          THEN ucb(nodes, ch[k], variant, rt, rw)
                          ELSE ucb_opponent(nodes, ch[k], variant, rt, rw)]
             c == ch[FirstMax(scores)]
         IN  Descend(nodes, c, Append(vec, c), who, variant, rt, rw)

select_root_to_leaf(nodes, who, variant, rt, rw) ==
    Descend(nodes, 1, << 1 >>, who, variant, rt, rw)

RECURSIVE FirstLegal_any_free(_, _, _)
FirstLegal_any_free(b, vec, i) ==
    IF i > Len(vec) THEN -1
    ELSE IF b.cells[vec[i]] = "empty" THEN vec[i]
    ELSE FirstLegal_any_free(b, vec, i + 1)

\* the search loop of node::expand_from_leaf: first position of vec that
\* is legal on the node's board, -1 when there is none
RECURSIVE FirstLegal(_, _, _)
FirstLegal(b, vec, i) ==
    IF i > Len(vec) THEN -1
    ELSE IF PlaceLegal(b, vec[i]) THEN vec[i]
    ELSE FirstLegal(b, vec, i + 1)

\* node::expand_from_leaf on node leaf once vec is shuffled: the tree
\* after it and the node it returns
expand_with(nodes, leaf, vec) ==
    LET pos == FirstLegal(nodes[leaf].board, vec, 1)
        id  == Len(nodes) + 1
        nn  == [NewNode(PlaceBoard(nodes[leaf].board, pos), pos)
                  EXCEPT !.parent = leaf]
    IN  IF pos # -1
        THEN [nodes |-> Append([nodes EXCEPT ![leaf].child = Append(@, id)], nn),
              node |-> id]
        ELSE [nodes |-> nodes, node |-> leaf]

\* node::expand_from_leaf with the shuffle run in one piece: also the
\* engine after it
expand_from_leaf(nodes, leaf, e) ==
    LET sh == all_space(e)
        r  == expand_with(nodes, leaf, sh.vec)
    IN  [nodes |-> r.nodes, node |-> r.node, engine |-> sh.engine]

PlayoutStep_keep_cnt(b, q, cnt) ==
    LET i == Head(q)
    IN  IF PlaceLegal(b, i)
        THEN [b |-> PlaceBoard(b, i), q |-> Tail(q), cnt |-> cnt]
        ELSE [b |-> b, q |-> Append(Tail(q), i), cnt |-> cnt + 1]

\* one iteration of the queue loop of node::simulate_winner
PlayoutStep(b, q, cnt) ==
    LET i == Head(q)
    IN  IF PlaceLegal(b, i)
        THEN [b |-> PlaceBoard(b, i), q |-> Tail(q), cnt |-> 0]
        ELSE [b |-> b, q |-> Append(Tail(q), i), cnt |-> cnt + 1]

\* the queue loop of node::simulate_winner
RECURSIVE Playout(_, _, _)
Playout(b, q, cnt) ==
    IF cnt = Len(q) THEN b
    ELSE LET st == PlayoutStep(b, q, cnt)
         IN  Playout(st.b, st.q, st.cnt)

\* node::simulate_winner once vec is shuffled: the winner
winner_with(nd, vec) ==
    LET b == Playout(nd.board, vec, 0)
    IN  IF b.who = "white" THEN "black" ELSE "white"

\* node::simulate_winner with the shuffle run in one piece: the winner and
\* the engine after it
simulate_winner(nd, e) ==
    LET sh == all_space(e)
    IN  [winner |-> winner_with(nd, sh.vec), engine |-> sh.engine]

\* the test "winner == info().who_take_turns" of node::back_propagate: info()
\* is the one of the tree object the search runs on (node 1), whichever
\* node n of the path is being updated
WinnerTest_per_node(winner, nodes, n) == winner = nodes[n].board.who

WinnerTest(winner, nodes, n) == winner = nodes[1].board.who

\* the counters of one path node in node::back_propagate
BackUpNode_else_slip(nd, hit) ==
    IF hit THEN [nd EXCEPT !.win_cnt = @ + 1]
    ELSE [nd EXCEPT !.total_cnt = @ + 1]

BackUpNode(nd, hit) ==
    [nd EXCEPT !.total_cnt = @ + 1,
               !.win_cnt = IF hit THEN @ + 1 ELSE @]

\* node::back_propagate: the loop over path from index k; st holds the tree
\* and the RAVE tables, oob tells whether an index outside 0..80 was used on
\* the tables (the root's place_pos is -1)
RECURSIVE BackPropFrom(_, _, _, _, _)
BackPropFrom(st, path, k, winner, variant) ==
    IF k > Len(path) THEN st
    ELSE LET n   == path[k]
             pp  == st.nodes[n].place_pos
             hit == WinnerTest(winner, st.nodes, n)
             n2  == [st.nodes EXCEPT ![n] = BackUpNode(@, hit)]
             rt2 == IF variant = "rave" /\ pp \in Pos
                    THEN [st.rave_total EXCEPT ![pp] = @ + 1]
                    ELSE st.rave_total
             rw2 == IF variant = "rave" /\ pp \in Pos /\ hit
                    THEN [st.rave_win EXCEPT ![pp] = @ + 1]
                    ELSE st.rave_win
         IN  BackPropFrom([nodes |-> n2, rave_total |-> rt2, rave_win |-> rw2,
                           oob |-> st.oob \/ (variant = "rave" /\ pp \notin Pos)],
                          path, k + 1, winner, variant)

back_propagate_skip_first(nodes, path, winner, variant, rt, rw, oob) ==
    BackPropFrom([nodes |-> nodes, rave_total |-> rt, rave_win |-> rw,
                  oob |-> oob], path, 2, winner, variant)

back_propagate(nodes, path, winner, variant, rt, rw, oob) ==
    BackPropFrom([nodes |-> nodes, rave_total |-> rt, rave_win |-> rw,
                  oob |-> oob], path, 1, winner, variant)

\* player::delete_tree: the nodes it deletes, in the order of the deletions
RECURSIVE delete_tree(_, _)
RECURSIVE DeleteChildren(_, _, _)
DeleteChildren(ns, ch, k) ==
    IF k > Len(ch) THEN << >>
    ELSE delete_tree(ns, ch[k]) \o DeleteChildren(ns, ch, k + 1)

delete_tree(ns, root) ==
    IF Len(ns[root].child) = 0 THEN << root >>
    ELSE DeleteChildren(ns, ns[root].child, 1) \o << root >>

\* action() and action::place(pos, who)
NullAction == [pos |-> -1, who |-> "empty"]
PlaceAction(p, w) == [pos |-> p, who |-> w]

\* node::select_action: place_pos of the chosen root child, -1 when the
\* root has no child (action() in the RAVE variant)
select_action(nodes, variant, rt, rw) ==
    LET ch == nodes[1].child
        scores == [k \in 1 .. Len(ch) |-> win_rate(nodes[ch[k]], variant, rt, rw)]
    IN  IF Len(ch) = 0 THEN -1
        ELSE nodes[ch[FirstMax(scores)]].place_pos

\* the tally loop of the root-parallel take_action
RECURSIVE Tally(_, _, _)
Tally(mv, k, vr) ==
    IF k > Len(mv) THEN vr
    ELSE IF mv[k] # -1
         THEN Tally(mv, k + 1, [vr EXCEPT ![mv[k]] = @ + 1])
         ELSE Tally(mv, k + 1, vr)

RECURSIVE MaxElementFrom_last(_, _, _)
MaxElementFrom_last(vr, p, best) ==
    IF p >= BoardCells THEN best
    ELSE IF vr[best] <= vr[p] THEN MaxElementFrom_last(vr, p + 1, p)
         ELSE MaxElementFrom_last(vr, p + 1, best)

\* std::max_element: the first position holding the largest count
RECURSIVE MaxElementFrom(_, _, _)
MaxElementFrom(vr, p, best) ==
    IF p >= BoardCells THEN best
    ELSE IF vr[best] < vr[p] THEN MaxElementFrom(vr, p + 1, p)
         ELSE MaxElementFrom(vr, p + 1, best)

\* the aggregation of the root-parallel take_action over majority_vote
Aggregate(mv, turn) ==
    LET vr   == Tally(mv, 1, [p \in Pos |-> 0])
        iter == MaxElementFrom(vr, 1, 0)
    IN  IF vr[iter] = 0 THEN NullAction ELSE PlaceAction(iter, turn)

\* ------------------------------------------------------ one player, one tree
\* variant "rave": hollow_nogo_MCTS; variant "par": hollow_nogo_Parallel_MCTS
\* on a machine where omp_get_num_procs() = 1 (a single worker).
VARIABLES
    state,        \* the game board held by the harness
    who,          \* the player's role
    variant,
    N,            \* meta["N"]
    engine,       \* random_agent::engine
    rave_total, rave_win,
    rave_oob,     \* an index outside the tables has been used
    nodes,        \* the tree: node 1 is the root
    i,            \* loop counter of node::MCTS
    path, winner,
    majority_vote,
    ret,          \* the action take_action returns
    pc,
    no_move_iters, \* iterations of this call whose expansion at the root found no legal move
    thread_num,   \* omp_get_num_procs()
    wk,           \* the workers of the parallel region, by omp_get_thread_num()
    cpc,          \* where the thread calling the root-parallel take_action is
    engine_users, \* the workers that have called engine() in the region
    last_draw,    \* the worker that called engine() last
    seed,         \* meta["seed"], given to engine.seed at construction
    freed,        \* the nodes of the call's tree destroyed so far, in order
    sim,          \* a playout of node::simulate_winner run step by step
    tiles,        \* the 2048 board held by the episode
    net,          \* the weight tables of the 2048 player
    t_pc,         \* where the 2048 episode is
    t_ret,        \* what the 2048 player::take_action returned
    probe,        \* the last direct call of a 2048 evaluation function
    moves         \* tiles placed by the environment so far

vars == << state, who, variant, N, engine, rave_total, rave_win, rave_oob,
           nodes, i, path, winner, majority_vote, ret, pc, no_move_iters,
           thread_num, wk, cpc, engine_users, last_draw,
           seed, freed, sim, tiles, net, t_pc, t_ret, probe, moves >>

\* the variables of the 2048 player and its episode
tile_vars == << tiles, net, t_pc, t_ret, probe, moves >>

\* the 2048 player is not running
NoTiles ==
    /\ tiles = << >>
    /\ net = << >>
    /\ t_pc = "none"
    /\ t_ret = << >>
    /\ probe = << >>
    /\ moves = 0

\* no step-by-step playout is running
NoSim == sim = << >>

\* the variables of the parallel region
par_vars == << thread_num, wk, cpc, engine_users, last_draw >>

Zeros == [p \in Pos |-> 0]

Init ==
    /\ state = EmptyBoard
    /\ who \in {"black", "white"}
    /\ variant \in {"rave", "par"}
    /\ N \in 1 .. MaxN
    /\ seed \in Seeds
    /\ engine = seed
    /\ freed = << >>
    /\ NoSim
    /\ NoTiles
    /\ rave_total = Zeros
    /\ rave_win = Zeros
    /\ rave_oob = FALSE
    /\ nodes = << >>
    /\ i = 0
    /\ path = << >>
    /\ winner = "empty"
    /\ majority_vote = << >>
    /\ ret = NullAction
    /\ pc = "idle"
    /\ no_move_iters = 0
    /\ thread_num = 1
    /\ wk = << >>
    /\ cpc = "none"
    /\ engine_users = {}
    /\ last_draw = -1

\* the other player places a stone
OpponentMove ==
    /\ pc = "idle"
    /\ state.who # who
    /\ \E p \in Pos : PlaceLegal(state, p) /\ state' = PlaceBoard(state, p)
    /\ UNCHANGED << who, variant, N, engine, rave_total, rave_win, rave_oob,
                    nodes, i, path, winner, majority_vote, ret, pc, no_move_iters >>
    /\ UNCHANGED par_vars
    /\ UNCHANGED << seed, freed, sim, tile_vars >>

\* player::take_action up to the first iteration of node::MCTS
TakeAction ==
    /\ pc = "idle"
    /\ state.who = who
    /\ rave_total' = IF variant = "rave" THEN Zeros ELSE rave_total
    /\ rave_win' = IF variant = "rave" THEN Zeros ELSE rave_win
    /\ majority_vote' = IF variant = "par" THEN << 0 >> ELSE majority_vote
    /\ nodes' = << NewNode(state, -1) >>
    /\ i' = 0
    /\ path' = << >>
    /\ no_move_iters' = 0
    /\ freed' = << >>
    /\ pc' = "select"
    /\ UNCHANGED << state, who, variant, N, engine, rave_oob, winner, ret >>
    /\ UNCHANGED par_vars
    /\ UNCHANGED << seed, sim, tile_vars >>

Select ==
    /\ pc = "select"
    /\ path' = select_root_to_leaf(nodes, nodes[1].board.who, variant,
                                   rave_total, rave_win)
    /\ pc' = "expand"
    /\ UNCHANGED << state, who, variant, N, engine, rave_total, rave_win,
                    rave_oob, nodes, i, winner, majority_vote, ret, no_move_iters >>
    /\ UNCHANGED par_vars
    /\ UNCHANGED << seed, freed, sim, tile_vars >>

Expand ==
    /\ pc = "expand"
    /\ LET leaf == path[Len(path)]
           r    == expand_from_leaf(nodes, leaf, engine)
       IN  /\ nodes' = r.nodes
           /\ engine' = r.engine
           /\ path' = IF r.node # leaf THEN Append(path, r.node) ELSE path
           /\ no_move_iters' = IF r.node = leaf /\ leaf = 1
                               THEN no_move_iters + 1 ELSE no_move_iters
    /\ pc' = "simulate"
    /\ UNCHANGED << state, who, variant, N, rave_total, rave_win, rave_oob,
                    i, winner, majority_vote, ret >>
    /\ UNCHANGED par_vars
    /\ UNCHANGED << seed, freed, sim, tile_vars >>

Simulate ==
    /\ pc = "simulate"
    /\ LET r == simulate_winner(nodes[path[Len(path)]], engine)
       IN  /\ winner' = r.winner
           /\ engine' = r.engine
    /\ pc' = "backprop"
    /\ UNCHANGED << state, who, variant, N, rave_total, rave_win, rave_oob,
                    nodes, i, path, majority_vote, ret, no_move_iters >>
    /\ UNCHANGED par_vars
    /\ UNCHANGED << seed, freed, sim, tile_vars >>

BackPropagate ==
    /\ pc = "backprop"
    /\ LET r == back_propagate(nodes, path, winner, variant,
                               rave_total, rave_win, rave_oob)
       IN  /\ nodes' = r.nodes
           /\ rave_total' = r.rave_total
           /\ rave_win' = r.rave_win
           /\ rave_oob' = r.oob
    /\ i' = i + 1
    /\ pc' = IF i + 1 < N THEN "select" ELSE "final"
    /\ UNCHANGED << state, who, variant, N, engine, path, winner,
                    majority_vote, ret, no_move_iters >>
    /\ UNCHANGED par_vars
    /\ UNCHANGED << seed, freed, sim, tile_vars >>

\* return select_action(...): the RAVE variant returns the action and its
\* temporary root node goes out of scope (the implicit destructor frees the
\* child vector, not the nodes it points to); the parallel variant calls
\* delete_tree(root), stores the worker's vote and aggregates
SelectAction ==
    /\ pc = "final"
    /\ LET m == select_action(nodes, variant, rave_total, rave_win)
       IN  IF variant = "rave"
           THEN /\ ret' = IF m = -1 THEN NullAction
                          ELSE PlaceAction(m, nodes[1].board.who)
                /\ UNCHANGED majority_vote
           ELSE /\ majority_vote' = [majority_vote EXCEPT ![1] = m]
                /\ ret' = Aggregate(majority_vote', state.who)
    /\ freed' = IF variant = "rave" THEN << 1 >> ELSE delete_tree(nodes, 1)
    /\ pc' = "done"
    /\ UNCHANGED << state, who, variant, N, engine, rave_total, rave_win,
                    rave_oob, nodes, i, path, winner, no_move_iters >>
    /\ UNCHANGED par_vars
    /\ UNCHANGED << seed, sim, tile_vars >>

\* the harness applies the returned action; a null action ends the game
Return ==
    /\ pc = "done"
    /\ IF ret = NullAction
       THEN pc' = "over" /\ UNCHANGED state
       ELSE pc' = "idle" /\ state' = PlaceBoard(state, ret.pos)
    /\ nodes' = << >>
    /\ path' = << >>
    /\ UNCHANGED << who, variant, N, engine, rave_total, rave_win, rave_oob,
                    i, winner, majority_vote, ret, no_move_iters >>
    /\ UNCHANGED par_vars
    /\ UNCHANGED << seed, freed, sim, tile_vars >>

Next ==
    \/ OpponentMove
    \/ TakeAction
    \/ Select
    \/ Expand
    \/ Simulate
    \/ BackPropagate
    \/ SelectAction
    \/ Return

Spec == Init /\ [][Next]_vars

\* ------------------------------------------------- the root-parallel player
\* player::take_action of hollow_nogo_Parallel_MCTS with thread_num workers.
\* A worker's step is one call of engine() inside std::shuffle together with
\* the work on its own tree that follows, up to its next call of engine().

\* largest omp_get_num_procs()
MaxThreads == 2
\* largest N and largest seed of the parallel runs
ParMaxN == 1
ParMaxSeed == 1
\* largest number of result slots of the aggregation runs
VoteThreads == 4

\* the variables the parallel region does not use
seq_vars == << who, variant, rave_total, rave_win, rave_oob, nodes, i, path,
               winner, pc, no_move_iters, seed, freed, sim, tile_vars >>

Identity == [k \in 1 .. BoardCells |-> k - 1]

IdleWorker ==
    [pc |-> "idle", nodes |-> << >>, i |-> 0, path |-> << >>,
     winner |-> "empty", vec |-> << >>, k |-> 0, vote_move |-> 0]

\* a result slot whose number no thread of the team has: the team of the
\* parallel region has at most thread_num threads (the request of
\* omp_set_num_threads); the run-time may give it fewer
AbsentWorker == [IdleWorker EXCEPT !.pc = "absent"]

ThreadIds == 0 .. (thread_num - 1)

\* the thread numbers of the team of the region
TeamIds == { id \in ThreadIds : wk[id].pc # "absent" }

\* select_root_to_leaf and the entry into all_space of expand_from_leaf
EnterIteration(w) ==
    [w EXCEPT !.path = select_root_to_leaf(w.nodes, w.nodes[1].board.who,
                                           "par", Zeros, Zeros),
              !.vec = Identity, !.k = 2, !.pc = "expand"]

\* the rest of expand_from_leaf after its shuffle, and the entry into
\* all_space of simulate_winner
AfterExpandShuffle(w) ==
    LET leaf == w.path[Len(w.path)]
        r    == expand_with(w.nodes, leaf, w.vec)
    IN  [w EXCEPT !.nodes = r.nodes,
                  !.path = IF r.node # leaf THEN Append(w.path, r.node) ELSE w.path,
                  !.vec = Identity, !.k = 2, !.pc = "simulate"]

\* the rest of simulate_winner after its shuffle, back_propagate, ++i and
\* the loop test of node::MCTS
AfterSimulateShuffle(w, n) ==
    LET win == winner_with(w.nodes[w.path[Len(w.path)]], w.vec)
        r   == back_propagate(w.nodes, w.path, win, "par", Zeros, Zeros, FALSE)
        w2  == [w EXCEPT !.winner = win, !.nodes = r.nodes, !.i = w.i + 1]
    IN  IF w.i + 1 < n THEN EnterIteration(w2)
        ELSE [w2 EXCEPT !.pc = "final", !.vec = << >>, !.k = 0]

\* one step of std::shuffle in worker record w with the drawn value x
DrawStep(w, x, n) ==
    LET w2 == [w EXCEPT !.vec = Swap(w.vec, w.k, (x % w.k) + 1), !.k = w.k + 1]
    IN  IF w2.k <= BoardCells THEN w2
        ELSE IF w.pc = "expand" THEN AfterExpandShuffle(w2)
        ELSE AfterSimulateShuffle(w2, n)

InitPar ==
    /\ state = EmptyBoard
    /\ N \in 1 .. ParMaxN
    /\ seed \in 1 .. ParMaxSeed
    /\ engine = seed
    /\ freed = << >>
    /\ NoSim
    /\ NoTiles
    /\ thread_num \in 1 .. MaxThreads
    /\ wk = << >>
    /\ cpc = "idle"
    /\ engine_users = {}
    /\ last_draw = -1
    /\ majority_vote = << >>
    /\ ret = NullAction
    /\ who = "black"
    /\ variant = "par"
    /\ rave_total = Zeros
    /\ rave_win = Zeros
    /\ rave_oob = FALSE
    /\ nodes = << >>
    /\ i = 0
    /\ path = << >>
    /\ winner = "empty"
    /\ pc = "none"
    /\ no_move_iters = 0

\* the game before the call: a stone is placed
P_Place ==
    /\ cpc = "idle"
    /\ \E p \in Pos : PlaceLegal(state, p) /\ state' = PlaceBoard(state, p)
    /\ UNCHANGED << N, engine, majority_vote, ret, par_vars, seq_vars >>

\* take_action up to the start of the parallel region
P_TakeAction ==
    /\ cpc = "idle"
    /\ majority_vote' = [k \in 1 .. thread_num |-> 0]
    /\ \E team \in 1 .. thread_num :
           wk' = [id \in ThreadIds |-> IF id < team THEN IdleWorker ELSE AbsentWorker]
    /\ cpc' = "region"
    /\ UNCHANGED << state, N, engine, ret, thread_num, engine_users, last_draw,
                    seq_vars >>

\* a worker enters the region: root = new node(state), and MCTS up to its
\* first call of engine()
W_Begin(id) ==
    /\ cpc = "region"
    /\ wk[id].pc = "idle"
    /\ wk' = [wk EXCEPT ![id] =
                 EnterIteration([IdleWorker EXCEPT !.nodes = << NewNode(state, -1) >>])]
    /\ UNCHANGED << state, N, engine, majority_vote, ret, thread_num, cpc,
                    engine_users, last_draw, seq_vars >>

\* a worker calls engine(): the player's one engine, shared by all workers
W_Draw(id) ==
    /\ cpc = "region"
    /\ wk[id].pc \in {"expand", "simulate"}
    /\ engine' = EngineNext(engine)
    /\ wk' = [wk EXCEPT ![id] = DrawStep(@, engine', N)]
    /\ engine_users' = engine_users \cup {id}
    /\ last_draw' = id
    /\ UNCHANGED << state, N, majority_vote, ret, thread_num, cpc, seq_vars >>

\* a worker calls engine() while another worker's call is under way: both
\* read the same state and both get (and store) the same next value
W_DrawRacing(id) ==
    /\ cpc = "region"
    /\ wk[id].pc \in {"expand", "simulate"}
    /\ last_draw \notin {-1, id}
    /\ wk' = [wk EXCEPT ![id] = DrawStep(@, engine, N)]
    /\ engine_users' = engine_users \cup {id}
    /\ last_draw' = id
    /\ UNCHANGED << state, N, engine, majority_vote, ret, thread_num, cpc, seq_vars >>

\* the end of a worker: vote_move = select_action(), delete_tree(root),
\* majority_vote[id] = vote_move
W_Finish(id) ==
    /\ cpc = "region"
    /\ wk[id].pc = "final"
    /\ LET m == select_action(wk[id].nodes, "par", Zeros, Zeros)
       IN  /\ wk' = [wk EXCEPT ![id].vote_move = m, ![id].nodes = << >>,
                               ![id].path = << >>, ![id].pc = "joined"]
           /\ majority_vote' = [majority_vote EXCEPT ![id + 1] = m]
    /\ UNCHANGED << state, N, engine, ret, thread_num, cpc, engine_users,
                    last_draw, seq_vars >>

\* after the region (every worker of the team has reached its end): the
\* tally and the returned action
P_Aggregate ==
    /\ cpc = "region"
    /\ \A id \in TeamIds : wk[id].pc = "joined"
    /\ ret' = Aggregate(majority_vote, state.who)
    /\ cpc' = "done"
    /\ UNCHANGED << state, N, engine, majority_vote, thread_num, wk,
                    engine_users, last_draw, seq_vars >>

NextPar ==
    \/ P_Place
    \/ P_TakeAction
    \/ \E id \in ThreadIds : W_Begin(id)
    \/ \E id \in ThreadIds : W_Draw(id)
    \/ \E id \in ThreadIds : W_DrawRacing(id)
    \/ \E id \in ThreadIds : W_Finish(id)
    \/ P_Aggregate

SpecPar == InitPar /\ [][NextPar]_vars

\* the aggregation alone, from every content of the result slots after the
\* region
InitVote ==
    /\ state \in {EmptyBoard, [EmptyBoard EXCEPT !.who = "white"]}
    /\ N = 1
    /\ seed = 1
    /\ engine = seed
    /\ freed = << >>
    /\ NoSim
    /\ NoTiles
    /\ thread_num \in 1 .. VoteThreads
    /\ majority_vote \in [1 .. thread_num -> -1 .. (BoardCells - 1)]
    /\ wk = [id \in ThreadIds |->
                [IdleWorker EXCEPT !.pc = "joined", !.vote_move = majority_vote[id + 1]]]
    /\ cpc = "region"
    /\ engine_users = {}
    /\ last_draw = -1
    /\ ret = NullAction
    /\ who = "black"
    /\ variant = "par"
    /\ rave_total = Zeros
    /\ rave_win = Zeros
    /\ rave_oob = FALSE
    /\ nodes = << >>
    /\ i = 0
    /\ path = << >>
    /\ winner = "empty"
    /\ pc = "none"
    /\ no_move_iters = 0

NextVote == P_Aggregate

SpecVote == InitVote /\ [][NextVote]_vars

\* ------------------------------------------------ a playout, step by step
\* node::simulate_winner on the board of a node, one iteration of its while
\* loop per step. The board of a node is a board the game and the search
\* reach by legal placements from the empty board.

\* the variables of the NoGo searches
search_vars == << state, who, variant, N, engine, rave_total, rave_win,
                  rave_oob, nodes, i, path, winner, majority_vote, ret, pc,
                  no_move_iters, par_vars, seed, freed >>

InitSim ==
    /\ sim = [pc |-> "node", start |-> EmptyBoard, b |-> EmptyBoard,
              q |-> << >>, cnt |-> 0, winner |-> "empty"]
    /\ state = EmptyBoard
    /\ who = "black"
    /\ variant = "rave"
    /\ N = 1
    /\ seed \in Seeds
    /\ engine = seed
    /\ rave_total = Zeros
    /\ rave_win = Zeros
    /\ rave_oob = FALSE
    /\ nodes = << >>
    /\ i = 0
    /\ path = << >>
    /\ winner = "empty"
    /\ majority_vote = << >>
    /\ ret = NullAction
    /\ pc = "none"
    /\ no_move_iters = 0
    /\ thread_num = 1
    /\ wk = << >>
    /\ cpc = "none"
    /\ engine_users = {}
    /\ last_draw = -1
    /\ freed = << >>
    /\ NoTiles

\* the node's board: one more legal placement
S_Place ==
    /\ sim.pc = "node"
    /\ \E p \in Pos :
           /\ PlaceLegal(sim.start, p)
           /\ sim' = [sim EXCEPT !.start = PlaceBoard(sim.start, p)]
    /\ UNCHANGED << search_vars, tile_vars >>

\* simulate_winner up to its loop: b = *this, vec = all_space(engine), the
\* queue filled from vec, cnt = 0
S_Begin ==
    /\ sim.pc = "node"
    /\ LET sh == all_space(engine)
       IN  /\ sim' = [sim EXCEPT !.pc = "loop", !.b = sim.start, !.q = sh.vec,
                                 !.cnt = 0]
           /\ engine' = sh.engine
    /\ UNCHANGED << state, who, variant, N, rave_total, rave_win, rave_oob,
                    nodes, i, path, winner, majority_vote, ret, pc,
                    no_move_iters, par_vars, seed, freed, tile_vars >>

\* one iteration of while(cnt != q.size())
S_Step ==
    /\ sim.pc = "loop"
    /\ sim.cnt # Len(sim.q)
    /\ LET st == PlayoutStep(sim.b, sim.q, sim.cnt)
       IN  sim' = [sim EXCEPT !.b = st.b, !.q = st.q, !.cnt = st.cnt]
    /\ UNCHANGED << search_vars, tile_vars >>

\* the loop exit and the return of the winner
S_Return ==
    /\ sim.pc = "loop"
    /\ sim.cnt = Len(sim.q)
    /\ sim' = [sim EXCEPT !.pc = "returned",
                          !.winner = IF sim.b.who = "white" THEN "black"
                                     ELSE "white"]
    /\ UNCHANGED << search_vars, tile_vars >>

NextSim ==
    \/ S_Place
    \/ S_Begin
    \/ S_Step
    \/ S_Return

\* the thread that runs the loop keeps running
SpecSim ==
    /\ InitSim
    /\ [][NextSim]_vars
    /\ WF_vars(S_Step)
    /\ WF_vars(S_Return)

\* ------------------------------------------------------ 2048: the board
\* 2048_expectimax/agent.h. The board primitives (board.h) and action.h are
\* not part of the sources: they are modelled from the specification's
\* "Board capability (2048)". A board is its 16 cells, row-major, each the
\* base-2 logarithm of its tile (0: empty).
Cells == 0 .. 15

\* rotate_right: the quarter turn that takes the left column, read from the
\* bottom, to the top row
rotate_right(b) == [p \in Cells |-> b[(3 - (p % 4)) * 4 + (p \div 4)]]

\* reflect_horizontal: every row reversed
reflect_horizontal(b) == [p \in Cells |-> b[(p \div 4) * 4 + (3 - (p % 4))]]

\* place(pos, cell)
place_tile(b, pos, t) == [b EXCEPT ![pos] = t]

\* 2 to the power k
RECURSIVE Pow2(_)
Pow2(k) == IF k = 0 THEN 1 ELSE 2 * Pow2(k - 1)

\* the tiles of one row pushed to the front, equal neighbours merged once:
\* the tiles left and the reward (the sum of the merged tiles)
RECURSIVE MergeRow(_)
MergeRow(ts) ==
    IF Len(ts) <= 1 THEN [row |-> ts, reward |-> 0]
    ELSE IF ts[1] = ts[2]
         THEN LET rest == MergeRow(SubSeq(ts, 3, Len(ts)))
              IN  [row |-> << ts[1] + 1 >> \o rest.row,
                   reward |-> Pow2(ts[1] + 1) + rest.reward]
         ELSE LET rest == MergeRow(Tail(ts))
              IN  [row |-> << ts[1] >> \o rest.row, reward |-> rest.reward]

\* the tiles of row r, left to right, without the empty cells
RowTiles(b, r) ==
    LET F[c \in 0 .. 4] ==
            IF c = 4 THEN << >>
            ELSE IF b[4 * r + c] = 0 THEN F[c + 1]
                 ELSE << b[4 * r + c] >> \o F[c + 1]
    IN  F[0]

\* the board and the reward once every row is merged to the left
RowsToBoard(rows) ==
    [board |-> [p \in Cells |->
                   IF (p % 4) + 1 <= Len(rows[p \div 4].row)
                   THEN rows[p \div 4].row[(p % 4) + 1] ELSE 0],
     reward |-> rows[0].reward + rows[1].reward + rows[2].reward
                + rows[3].reward]

\* every row slid to the left
slide_left(b) == RowsToBoard([r \in 0 .. 3 |-> MergeRow(RowTiles(b, r))])

\* the board turned so that direction dir (0 up, 1 right, 2 down, 3 left)
\* points to the left, and turned back
TurnLeft(b, dir) ==
    IF dir = 3 THEN b
    ELSE IF dir = 1 THEN reflect_horizontal(b)
    ELSE IF dir = 0 THEN reflect_horizontal(rotate_right(b))
    ELSE rotate_right(b)

TurnBack(b, dir) ==
    IF dir = 3 THEN b
    ELSE IF dir = 1 THEN reflect_horizontal(b)
    ELSE IF dir = 0
         THEN rotate_right(rotate_right(rotate_right(reflect_horizontal(b))))
    ELSE rotate_right(rotate_right(rotate_right(b)))

SlidBack(s, dir) == [board |-> TurnBack(s.board, dir), reward |-> s.reward]

\* reward -1 (and the board as it was) when nothing moved
IfChanged(b, s) == IF s.board = b THEN [board |-> b, reward |-> -1] ELSE s

\* slide(dir): the board after it and the reward
slide(b, dir) == IfChanged(b, SlidBack(slide_left(TurnLeft(b, dir)), dir))

\* --------------------------------------------------- 2048: the evaluator
\* Weights are whole numbers and sums are exact: the rounding of float
\* arithmetic is not modelled. A value that involves the lowest float,
\* -std::numeric_limits<float>::max(), is kept as a multiple of it: the
\* float [h, num, den] stands for (h * FLT_MAX + num) / den, and where h is
\* not 0 the finite part num is below the float's precision.
Float(h, num, den) == [h |-> h, num |-> num, den |-> den]
LowestFloat == Float(-1, 0, 1)

\* a > b on floats
FloatGt(a, b) ==
    IF a.h * b.den # b.h * a.den THEN a.h * b.den > b.h * a.den
    ELSE IF a.h # 0 THEN FALSE
    ELSE a.num * b.den > b.num * a.den

\* int + float
IntPlusFloat(n, x) == Float(x.h, x.num + n * x.den, x.den)

\* net[t][idx] for the weight tables nt: a flat table holds nt.v in every
\* entry (0 after init_weights), a loaded table holds values that depend on
\* the table and on the index
WeightAt(nt, t, idx) ==
    IF nt.kind = "flat" THEN nt.v
    ELSE (((idx % nt.m) * (t + 1)) % 5) - 2

extract_feature6_swapped(after, a, b, c, d, e, f) ==
    after[a] * 16 * 16 * 16 * 16 * 16
        + after[b] * 16 * 16 * 16 * 16
        + after[c] * 16 * 16 * 16
        + after[d] * 16 * 16
        + after[f] * 16
        + after[e]

\* player::extract_feature6
extract_feature6(after, a, b, c, d, e, f) ==
    after[a] * 16 * 16 * 16 * 16 * 16
        + after[b] * 16 * 16 * 16 * 16
        + after[c] * 16 * 16 * 16
        + after[d] * 16 * 16
        + after[e] * 16
        + after[f]

\* the body of the loops of estimate_value without its rotate_right:
\* net[0][idx0] + net[1][idx1] + net[2][idx2] + net[3][idx3]
ViewSum(b, nt) ==
    LET idx0 == extract_feature6(b, 0, 1, 2, 3, 4, 5)
        idx1 == extract_feature6(b, 4, 5, 6, 7, 8, 9)
        idx2 == extract_feature6(b, 0, 1, 2, 4, 5, 6)
        idx3 == extract_feature6(b, 4, 5, 6, 8, 9, 10)
    IN  WeightAt(nt, 0, idx0) + WeightAt(nt, 1, idx1)
            + WeightAt(nt, 2, idx2) + WeightAt(nt, 3, idx3)

\* one loop "for(int i = 0; i < 4; ++i)" of estimate_value from step k on:
\* the sum and the board after it
RECURSIVE RotateLoop(_, _, _, _)
RotateLoop(b, nt, k, sum) ==
    IF k >= 4 THEN [sum |-> sum, b |-> b]
    ELSE RotateLoop(rotate_right(b), nt, k + 1, sum + ViewSum(b, nt))

SecondLoop_no_reflect(l1, nt) == RotateLoop(l1.b, nt, 0, l1.sum).sum

SecondLoop_three_turns(l1, nt) ==
    RotateLoop(reflect_horizontal(l1.b), nt, 1, l1.sum).sum

\* b.reflect_horizontal() and the second loop, after the first loop left l1
SecondLoop(l1, nt) == RotateLoop(reflect_horizontal(l1.b), nt, 0, l1.sum).sum

\* player::estimate_value
estimate_value(after, nt) == SecondLoop(RotateLoop(after, nt, 0, 0), nt)

\* std::max(val_max, v); val_max is [low |-> TRUE] while it is the lowest
\* float
MaxOf(best, v) ==
    IF best.low \/ v > best.v THEN [low |-> FALSE, v |-> v] ELSE best

\* the body of the loop over the slides of expectation, s the slide's result
Respond(best, s, nt) ==
    IF s.reward = -1 THEN best
    ELSE MaxOf(best, s.reward + estimate_value(s.board, nt))

\* the loop over the four slides of a board with a tile placed, from
\* direction dir on: val_max
RECURSIVE BestResponse(_, _, _, _)
BestResponse(b, nt, dir, best) ==
    IF dir >= 4 THEN best
    ELSE BestResponse(b, nt, dir + 1, Respond(best, slide(b, dir), nt))

\* the number of empty cells of a board (the first loop of expectation)
CountEmpty(b) ==
    LET F[p \in 0 .. 16] ==
            IF p = 16 THEN 0 ELSE (IF b[p] = 0 THEN 1 ELSE 0) + F[p + 1]
    IN  F[0]

\* the term (val_max1 * 0.9 + val_max2 * 0.1) of one position, in tenths
TermNum(v1, v2) == (IF v1.low THEN 0 ELSE 9 * v1.v) + (IF v2.low THEN 0 ELSE v2.v)
TermLow(v1, v2) == (IF v1.low THEN -9 ELSE 0) + (IF v2.low THEN -1 ELSE 0)

\* result += term, before the division by empty_space
AddTerm(acc, v1, v2) ==
    [h |-> acc.h + TermLow(v1, v2), num |-> acc.num + TermNum(v1, v2)]

\* the second loop of expectation from position pos on; acc holds result
\* as the sum of the terms before their division by empty_space
RECURSIVE ExpectLoop(_, _, _, _)
ExpectLoop(after, nt, pos, acc) ==
    IF pos >= 16 THEN acc
    ELSE IF after[pos] # 0 THEN ExpectLoop(after, nt, pos + 1, acc)
    ELSE ExpectLoop(after, nt, pos + 1,
             AddTerm(acc,
                     BestResponse(place_tile(after, pos, 1), nt, 0, [low |-> TRUE]),
                     BestResponse(place_tile(after, pos, 2), nt, 0, [low |-> TRUE])))

Divided_by_16(acc, empty_space) == Float(acc.h, acc.num, 10 * 16)

\* the division of the terms by empty_space: the float over the
\* denominator 10 * empty_space (0 when the board has no empty cell)
Divided(acc, empty_space) ==
    IF empty_space = 0 THEN Float(0, 0, 1)
    ELSE Float(acc.h, acc.num, 10 * empty_space)

\* player::expectation
expectation(after, nt) ==
    Divided(ExpectLoop(after, nt, 0, [h |-> 0, num |-> 0]), CountEmpty(after))

\* action::slide(op), op = -1 when no direction was chosen (the null action)
SlideAction(op) == [op |-> op]

\* if(v > val_max){ val_max = v; r_max = reward; op = i; }
Update(st, dir, reward, v) ==
    IF FloatGt(v, st.val_max)
    THEN [val_max |-> v, r_max |-> reward, op |-> dir]
    ELSE st

Try_keep_illegal(st, dir, s, nt) ==
    Update(st, dir, s.reward, IntPlusFloat(s.reward, expectation(s.board, nt)))

\* the body of the loop of take_action for direction dir, s the slide's
\* result
Try(st, dir, s, nt) ==
    IF s.reward = -1 THEN st
    ELSE Update(st, dir, s.reward,
                IntPlusFloat(s.reward, expectation(s.board, nt)))

\* the loop of player::take_action (2048) from direction dir on; st holds
\* val_max, r_max and op
RECURSIVE TakeActionLoop(_, _, _, _)
TakeActionLoop(before, nt, dir, st) ==
    IF dir >= 4 THEN st
    ELSE TakeActionLoop(before, nt, dir + 1,
                        Try(st, dir, slide(before, dir), nt))

\* vs = val_max; r = r_max; return action::slide(op)
Returned(st) ==
    [action |-> SlideAction(st.op), vs |-> st.val_max, r |-> st.r_max]

\* player::take_action (2048): the action, vs and r
take_action(before, nt) ==
    Returned(TakeActionLoop(before, nt, 0,
                            [val_max |-> LowestFloat,
                             r_max |-> -2147483647 - 1, op |-> -1]))

\* ------------------------------------------- 2048: the player at work
\* largest number of tiles the environment places in an episode
MaxMoves == 1
\* number of loaded (non-flat) weight tables tried
LoadedTables == 1

BoardOf(sq) == [p \in Cells |-> sq[p + 1]]

\* boards the evaluation functions are called on
ScenarioBoard == BoardOf(<< 3, 1, 0, 2,   5, 7, 0, 0,   0, 0, 0, 0,   0, 0, 0, 0 >>)
HighBoard     == BoardOf(<< 15, 14, 15, 14,  14, 15, 13, 12,  0, 0, 1, 0,  0, 0, 0, 0 >>)
PairBoard     == BoardOf(<< 1, 1, 0, 0,   0, 0, 0, 0,   0, 0, 0, 0,   0, 0, 0, 0 >>)
OneGapBoard   == BoardOf(<< 0, 1, 3, 4,   2, 3, 4, 5,   3, 4, 5, 6,   4, 5, 6, 7 >>)
\* late positions of a game
DeadEndBoard  == BoardOf(<< 3, 3, 5, 3,   5, 6, 4, 5,   3, 4, 5, 3,   4, 5, 3, 4 >>)
HalfDeadBoard == BoardOf(<< 3, 3, 5, 2,   5, 6, 4, 5,   3, 4, 5, 3,   4, 5, 3, 4 >>)
FullBoard     == BoardOf(<< 1, 2, 1, 2,   2, 1, 2, 1,   1, 2, 1, 2,   2, 1, 2, 1 >>)
MidBoard      == BoardOf(<< 1, 1, 2, 3,   0, 2, 3, 1,   0, 0, 1, 2,   0, 0, 2, 1 >>)
LateBoard     == BoardOf(<< 1, 1, 2, 3,   0, 2, 3, 1,   3, 4, 1, 2,   0, 5, 2, 1 >>)
LaterBoard    == BoardOf(<< 2, 1, 2, 3,   0, 2, 3, 1,   3, 4, 1, 2,   0, 5, 2, 0 >>)

EpisodeBoards == { DeadEndBoard, HalfDeadBoard, FullBoard, LateBoard, LaterBoard }

EvalBoards ==
    { ScenarioBoard, HighBoard, PairBoard, OneGapBoard, FullBoard, MidBoard,
      slide(DeadEndBoard, 3).board, slide(HalfDeadBoard, 3).board }

\* the contents of the weight tables: as init_weights leaves them, or loaded
Nets ==
    { [kind |-> "flat", v |-> 0], [kind |-> "flat", v |-> 1] }
        \cup { [kind |-> "loaded", m |-> 6 + k] : k \in 1 .. LoadedTables }

\* the 6-tuples extract_feature6 is called with: those of estimate_value
\* and some others
CodeTuples ==
    { << 0, 1, 2, 3, 4, 5 >>, << 4, 5, 6, 7, 8, 9 >>, << 0, 1, 2, 4, 5, 6 >>,
      << 4, 5, 6, 8, 9, 10 >> }

Tuples ==
    CodeTuples \cup { << 0, 0, 0, 0, 0, 0 >>, << 15, 14, 13, 12, 11, 10 >>,
                      << 5, 4, 3, 2, 1, 0 >> }

\* the NoGo players are not running
SearchIdle ==
    /\ state = EmptyBoard
    /\ who = "black"
    /\ variant = "rave"
    /\ N = 1
    /\ seed = 1
    /\ engine = seed
    /\ rave_total = Zeros
    /\ rave_win = Zeros
    /\ rave_oob = FALSE
    /\ nodes = << >>
    /\ i = 0
    /\ path = << >>
    /\ winner = "empty"
    /\ majority_vote = << >>
    /\ ret = NullAction
    /\ pc = "none"
    /\ no_move_iters = 0
    /\ thread_num = 1
    /\ wk = << >>
    /\ cpc = "none"
    /\ engine_users = {}
    /\ last_draw = -1
    /\ freed = << >>
    /\ NoSim

\* direct calls of the evaluation functions on a board
InitEval ==
    /\ tiles \in EvalBoards
    /\ net \in Nets
    /\ t_pc = "probe"
    /\ t_ret = << >>
    /\ probe = [fn |-> "none"]
    /\ moves = 0
    /\ SearchIdle

T_Extract ==
    /\ t_pc = "probe"
    /\ \E tp \in Tuples :
           probe' = [fn |-> "extract_feature6", tuple |-> tp,
                     val |-> extract_feature6(tiles, tp[1], tp[2], tp[3],
                                              tp[4], tp[5], tp[6])]
    /\ UNCHANGED << tiles, net, t_pc, t_ret, moves, search_vars, sim >>

T_Estimate ==
    /\ t_pc = "probe"
    /\ probe' = [fn |-> "estimate_value", val |-> estimate_value(tiles, net)]
    /\ UNCHANGED << tiles, net, t_pc, t_ret, moves, search_vars, sim >>

T_Expect ==
    /\ t_pc = "probe"
    /\ probe' = [fn |-> "expectation", val |-> expectation(tiles, net)]
    /\ UNCHANGED << tiles, net, t_pc, t_ret, moves, search_vars, sim >>

NextEval ==
    \/ T_Extract
    \/ T_Estimate
    \/ T_Expect

SpecEval == InitEval /\ [][NextEval]_vars

\* an episode from a late position: the player chooses, the harness slides,
\* the environment places a tile
InitEpisode ==
    /\ tiles \in EpisodeBoards
    /\ net \in Nets
    /\ t_pc = "player"
    /\ t_ret = << >>
    /\ probe = [fn |-> "none"]
    /\ moves = 0
    /\ SearchIdle

\* player::take_action(before, vs, r)
T_TakeAction ==
    /\ t_pc = "player"
    /\ t_ret' = take_action(tiles, net)
    /\ t_pc' = "chosen"
    /\ UNCHANGED << tiles, net, probe, moves, search_vars, sim >>

\* the harness applies the action: a slide that is not legal (the null
\* action included) ends the episode
T_Apply ==
    /\ t_pc = "chosen"
    /\ IF t_ret.action.op \in 0 .. 3
       THEN /\ tiles' = slide(tiles, t_ret.action.op).board
            /\ t_pc' = IF tiles' # tiles THEN "env" ELSE "over"
       ELSE /\ UNCHANGED tiles
            /\ t_pc' = "over"
    /\ UNCHANGED << net, t_ret, probe, moves, search_vars, sim >>

\* rndenv::take_action: the first empty cell of the shuffled space, tile 1
\* or 2 as popup(engine) falls
T_Popup ==
    /\ t_pc = "env"
    /\ moves < MaxMoves
    /\ \E pos \in Cells, t \in {1, 2} :
           /\ tiles[pos] = 0
           /\ tiles' = place_tile(tiles, pos, t)
    /\ moves' = moves + 1
    /\ t_pc' = "player"
    /\ UNCHANGED << net, t_ret, probe, search_vars, sim >>

NextEpisode ==
    \/ T_TakeAction
    \/ T_Apply
    \/ T_Popup

SpecEpisode == InitEpisode /\ [][NextEpisode]_vars

\* ------------------------------------------------------------------- claims
InSearch == pc \in {"select", "expand", "simulate", "backprop", "final", "done"}
\* between iterations: i iterations are complete
IterationsDone == pc \in {"select", "final", "done"}
NodeIds == 1 .. Len(nodes)
LegalMoves(b) == { p \in Pos : PlaceLegal(b, p) }
ChildPos(nd) == { nodes[nd.child[k]].place_pos : k \in 1 .. Len(nd.child) }
OnPath(n) == \E k \in 1 .. Len(path) : path[k] = n

RECURSIVE SumTotals(_, _)
SumTotals(ns, ch) ==
    IF ch = << >> THEN 0 ELSE ns[Head(ch)].total_cnt + SumTotals(ns, Tail(ch))

\* C1: every node of the tree, the root included, has 0 <= win_cnt <= total_cnt
\* at every point of the search.
C1_WinWithinTotal ==
    \A n \in NodeIds :
        /\ 0 <= nodes[n].win_cnt
        /\ nodes[n].win_cnt <= nodes[n].total_cnt

C1_Witness ==
    /\ InSearch
    /\ \E n \in NodeIds : 0 < nodes[n].win_cnt /\ nodes[n].win_cnt < nodes[n].total_cnt
    /\ \E n \in NodeIds : n # 1 /\ nodes[n].win_cnt = nodes[n].total_cnt
                                /\ nodes[n].total_cnt > 0

\* C2: the children of every node have pairwise distinct place_pos, each a
\* legal move of the node's board (expansion never attaches a move that is
\* already a child).
C2_DistinctChildren ==
    \A n \in NodeIds :
        LET ch == nodes[n].child
        IN  /\ \A k \in 1 .. Len(ch) : nodes[ch[k]].place_pos \in LegalMoves(nodes[n].board)
            /\ \A j, k \in 1 .. Len(ch) :
                   j # k => nodes[ch[j]].place_pos # nodes[ch[k]].place_pos

\* C3 as stated: is_leaf() is true exactly when the children do not cover
\* every legal move of the node's board.
C3_LeafIffNotCovered ==
    \A n \in NodeIds :
        is_leaf(nodes[n]) <=> ~(LegalMoves(nodes[n].board) \subseteq ChildPos(nodes[n]))

\* C3 amended: is_leaf() is true exactly when the node's board has no legal
\* move or the number of children differs from the number of legal moves.
C3_LeafIffCountDiffers ==
    \A n \in NodeIds :
        is_leaf(nodes[n]) <=>
            \/ LegalMoves(nodes[n].board) = {}
            \/ Len(nodes[n].child) # Cardinality(LegalMoves(nodes[n].board))

C3_Witness ==
    /\ InSearch
    /\ \E n \in NodeIds : LegalMoves(nodes[n].board) = {} /\ is_leaf(nodes[n])
    /\ \E n \in NodeIds : LegalMoves(nodes[n].board) # {} /\ ~is_leaf(nodes[n])

\* C4: after i completed iterations root.total_cnt = i and the total_cnt of
\* the root's children sum to i minus the number of iterations whose
\* expansion at the root found no legal move (i when the root has a legal
\* move, 0 when it has none).
C4_RootChildTotals ==
    IterationsDone =>
        LET sum == SumTotals(nodes, nodes[1].child)
        IN  /\ nodes[1].total_cnt = i
            /\ sum = i - no_move_iters
            /\ (LegalMoves(nodes[1].board) # {} => sum = i)
            /\ (LegalMoves(nodes[1].board) = {} => sum = 0)

C4_Witness ==
    /\ pc = "final"
    /\ i >= 3
    /\ Len(nodes[1].child) >= 2
    /\ \E k \in 1 .. Len(nodes[1].child) : nodes[nodes[1].child[k]].total_cnt >= 2

\* C5: a backup step adds 1 to total_cnt of every node of the path, adds 1
\* to win_cnt of all of them or of none, as the playout winner is or is not
\* the side to move on the root's board, and leaves the counters of all
\* other nodes as they were.
C5_BackupFrame ==
    [][pc = "backprop" =>
         LET d == IF winner = nodes[1].board.who THEN 1 ELSE 0
         IN  /\ Len(nodes') = Len(nodes)
             /\ \A n \in NodeIds :
                    IF OnPath(n)
                    THEN /\ nodes'[n].total_cnt = nodes[n].total_cnt + 1
                         /\ nodes'[n].win_cnt = nodes[n].win_cnt + d
                    ELSE /\ nodes'[n].total_cnt = nodes[n].total_cnt
                         /\ nodes'[n].win_cnt = nodes[n].win_cnt]_vars

\* a backup has just run on a path of three nodes, in a tree with nodes off
\* the path, for a winner that is the root's side but not the side at the
\* second node
C5_Witness ==
    /\ pc \in {"select", "final"}
    /\ i >= 1
    /\ Len(path) >= 3
    /\ Len(nodes) > Len(path)
    /\ winner = nodes[1].board.who
    /\ winner # nodes[path[2]].board.who

\* C6: RAVE variant, root with a legal move: after exactly one iteration
\* the root has one child, total_cnt 1, win_cnt 0 or 1, and exactly one
\* position of the tables (the child's) has been incremented.
C6_AfterOneIteration ==
    (variant = "rave" /\ IterationsDone /\ i = 1 /\ LegalMoves(nodes[1].board) # {}) =>
        /\ Len(nodes[1].child) = 1
        /\ nodes[1].total_cnt = 1
        /\ nodes[1].win_cnt \in {0, 1}
        /\ LET p == nodes[nodes[1].child[1]].place_pos
           IN  /\ p \in Pos
               /\ rave_total = [Zeros EXCEPT ![p] = 1]
               /\ rave_win = [Zeros EXCEPT ![p] = nodes[1].win_cnt]

C6_Witness ==
    /\ variant = "rave" /\ pc = "select" /\ i = 1
    /\ LegalMoves(nodes[1].board) # {}
    /\ nodes[1].win_cnt = 1

\* C7: a root with no legal move never gets a child, whatever N is, and
\* the search returns the null result: action() in the RAVE variant, vote
\* -1 (and then action()) in the parallel variant.
C7_NoMoveAtRoot ==
    (InSearch /\ LegalMoves(nodes[1].board) = {}) =>
        /\ Len(nodes[1].child) = 0
        /\ pc = "done" => /\ ret = NullAction
                          /\ variant = "par" => majority_vote = << -1 >>

C7_Witness ==
    /\ pc = "done"
    /\ LegalMoves(nodes[1].board) = {}
    /\ i >= 2

\* C8: the move of a single tree is the place_pos of the earliest root
\* child whose win_rate (Q* in the RAVE variant, Q in the parallel one) is
\* not exceeded by any other root child.
TreeMove == IF variant = "rave" THEN ret.pos ELSE majority_vote[1]

RootScore(k) == win_rate(nodes[nodes[1].child[k]], variant, rave_total, rave_win)

C8_FirstMaxValue ==
    (pc = "done" /\ Len(nodes[1].child) > 0) =>
        \E k \in 1 .. Len(nodes[1].child) :
            /\ TreeMove = nodes[nodes[1].child[k]].place_pos
            /\ \A j \in 1 .. Len(nodes[1].child) : ~Gt(RootScore(j), RootScore(k))
            /\ \A j \in 1 .. (k - 1) : Gt(RootScore(k), RootScore(j))

\* the chosen child ties with a later child that stands for another move
C8_Witness ==
    /\ pc = "done"
    /\ \E k, j \in 1 .. Len(nodes[1].child) :
           /\ k < j
           /\ TreeMove = nodes[nodes[1].child[k]].place_pos
           /\ nodes[nodes[1].child[j]].place_pos # TreeMove
           /\ RootScore(j) = RootScore(k)
           /\ \A m \in 1 .. Len(nodes[1].child) : ~Gt(RootScore(m), RootScore(k))

\* the number of result slots holding position p
Votes(p) == Cardinality({ k \in 1 .. Len(majority_vote) : majority_vote[k] = p })

\* C9: the aggregation returns the position held by the most result slots,
\* the lowest such position on a tie, slots holding -1 not counting, for the
\* side to move; it returns the null action when every slot holds -1.
C9_MajorityVote ==
    cpc = "done" =>
        IF \A k \in 1 .. Len(majority_vote) : majority_vote[k] = -1
        THEN ret = NullAction
        ELSE /\ ret.pos \in Pos
             /\ ret.who = state.who
             /\ \A q \in Pos : Votes(q) <= Votes(ret.pos)
             /\ \A q \in Pos : q < ret.pos => Votes(q) < Votes(ret.pos)

\* four result slots: two hold -1, the other two tie between positions 3
\* and 1, and position 1 is returned
C9_Witness ==
    /\ cpc = "done"
    /\ majority_vote = << 3, -1, 1, -1 >>
    /\ ret = PlaceAction(1, state.who)

\* C10: in the parallel region no mutable object is used by two workers
\* (each has its own tree and its own random generator), and the result
\* slots are read only once every worker has reached its end.
C10_WorkersShareNothing ==
    /\ Cardinality(engine_users) <= 1
    /\ cpc = "done" => \A id \in TeamIds : wk[id].pc = "joined"

\* the root-parallel search of one worker run in one piece from engine e:
\* the do-while loop of node::MCTS and select_action
RECURSIVE MCTSFrom(_, _, _, _)
MCTSFrom(ns, k, n, e) ==
    LET p    == select_root_to_leaf(ns, ns[1].board.who, "par", Zeros, Zeros)
        leaf == p[Len(p)]
        x    == expand_from_leaf(ns, leaf, e)
        p2   == IF x.node # leaf THEN Append(p, x.node) ELSE p
        sw   == simulate_winner(x.nodes[p2[Len(p2)]], x.engine)
        r    == back_propagate(x.nodes, p2, sw.winner, "par", Zeros, Zeros, FALSE)
    IN  IF k + 1 < n THEN MCTSFrom(r.nodes, k + 1, n, sw.engine)
        ELSE [vote |-> select_action(r.nodes, "par", Zeros, Zeros),
              engine |-> sw.engine]

\* the result slots no thread of the team writes: they keep their initial 0
UnwrittenSlots == [k \in 1 .. (thread_num - Cardinality(TeamIds)) |-> 0]

\* the votes of the execution in which the workers run one after another
RECURSIVE SerialVotes(_, _, _, _)
SerialVotes(b, n, w, e) ==
    IF w = 0 THEN << >>
    ELSE LET r == MCTSFrom(<< NewNode(b, -1) >>, 0, n, e)
         IN  << r.vote >> \o SerialVotes(b, n, w - 1, r.engine)

\* C11: for a given board, N, number of workers and seed, the vote
\* histogram of the root-parallel take_action is the same in every
\* execution, however the workers' steps interleave: it is the histogram
\* of the execution in which the workers run one after another.
C11_HistogramDeterministic ==
    cpc = "done" =>
        Tally(majority_vote, 1, Zeros)
            = Tally(SerialVotes(state, N, Cardinality(TeamIds), seed)
                        \o UnwrittenSlots, 1, Zeros)

\* the number of times node n has been destroyed
TimesFreed(n) == Cardinality({ k \in 1 .. Len(freed) : freed[k] = n })

\* C12: when take_action returns, every node of the tree built during the
\* call, the root and all its descendants, has been destroyed exactly once.
C12_TreeDestroyedOnce ==
    pc = "done" => \A n \in NodeIds : TimesFreed(n) = 1

\* C20: simulate_winner terminates from the board of any node, and when it
\* does the side to move on the playout board has no legal placement on any
\* cell and the winner returned is the opponent of that side.
C20_PlayoutTerminates ==
    /\ [](sim.pc = "returned" =>
             /\ LegalMoves(sim.b) = {}
             /\ sim.winner = Opponent(sim.b.who))
    /\ (sim.pc = "loop") ~> (sim.pc = "returned")

\* a playout has returned after placing stones, with cells still free that
\* went round the queue without a legal placement
C20_Witness ==
    /\ sim.pc = "returned"
    /\ sim.b # sim.start
    /\ Len(sim.q) >= 2
    /\ sim.start # EmptyBoard

\* ---------------------------------------------------- claims on the 2048 player
LegalSlides(b) == { d \in 0 .. 3 : slide(b, d).reward # -1 }
EmptyCells(b) == { p \in Cells : b[p] = 0 }

ValueAfter(s) == IntPlusFloat(s.reward, expectation(s.board, net))
DirectionValue(d) == ValueAfter(slide(tiles, d))

\* C14: whenever a slide is legal, take_action returns a legal direction
\* whose v = reward + expectation(after) no legal direction exceeds, the
\* lowest such direction, also when every tile placed after the slide
\* leaves no legal response.
C14_BestLegalDirection ==
    (t_pc = "chosen" /\ LegalSlides(tiles) # {}) =>
        LET op == t_ret.action.op
        IN  /\ op \in LegalSlides(tiles)
            /\ \A d \in LegalSlides(tiles) :
                   ~FloatGt(DirectionValue(d), DirectionValue(op))
            /\ \A d \in LegalSlides(tiles) :
                   d < op => FloatGt(DirectionValue(op), DirectionValue(d))

\* the eight images of a board under the dihedral group of the square:
\* transpose (t), reverse the rows (h), reverse the columns (v)
D4 == [t : BOOLEAN, h : BOOLEAN, v : BOOLEAN]

D4Cell(g, p) ==
    LET r  == IF g.v THEN 3 - (p \div 4) ELSE p \div 4
        c  == IF g.h THEN 3 - (p % 4) ELSE p % 4
    IN  IF g.t THEN c * 4 + r ELSE r * 4 + c

D4Image(g, b) == [p \in Cells |-> b[D4Cell(g, p)]]

Orbit(b) == { D4Image(g, b) : g \in D4 }

\* the boards the two loops of estimate_value sum over
ViewsSummed(b) ==
    LET r1 == rotate_right(b)
        r2 == rotate_right(r1)
        r3 == rotate_right(r2)
        m0 == reflect_horizontal(rotate_right(r3))
        m1 == rotate_right(m0)
        m2 == rotate_right(m1)
        m3 == rotate_right(m2)
    IN  { b, r1, r2, r3, m0, m1, m2, m3 }

\* C15: on a board with cell values in [0,16), extract_feature6 with the
\* tuple (a,b,c,d,e,f) returns v_a*16^5 + v_b*16^4 + v_c*16^3 + v_d*16^2
\* + v_e*16 + v_f, which lies in [0, 16^6); so does every index
\* estimate_value reads the tables at, in each of its eight views.
C15_FeatureIndex ==
    (probe.fn = "extract_feature6" /\ \A p \in Cells : tiles[p] \in 0 .. 15) =>
        LET tp == probe.tuple
        IN  /\ probe.val = tiles[tp[1]] * 1048576 + tiles[tp[2]] * 65536
                           + tiles[tp[3]] * 4096 + tiles[tp[4]] * 256
                           + tiles[tp[5]] * 16 + tiles[tp[6]]
            /\ probe.val \in 0 .. 16777215
            /\ \A b \in Orbit(tiles) : \A ct \in CodeTuples :
                   extract_feature6(b, ct[1], ct[2], ct[3], ct[4], ct[5], ct[6])
                       \in 0 .. 16777215

\* the largest index: six times a cell that holds 15
C15_Witness ==
    /\ probe.fn = "extract_feature6"
    /\ tiles = HighBoard
    /\ probe.tuple = << 0, 0, 0, 0, 0, 0 >>
    /\ probe.val = 16777215

\* extract_feature6 has been called on the scenario board with (0,1,2,3,4,5)
ScenarioCall ==
    /\ probe.fn = "extract_feature6"
    /\ tiles = ScenarioBoard
    /\ probe.tuple = << 0, 1, 2, 3, 4, 5 >>

\* C16 as stated: on the board with cells 0..5 = 3,1,0,2,5,7 and the other
\* cells 0, extract_feature6 with (0,1,2,3,4,5) returns 3 211 271.
C16_ScenarioIndexStated == ScenarioCall => probe.val = 3211271

\* C16 amended: on that board extract_feature6 with (0,1,2,3,4,5) returns
\* 3 211 863 (3*16^5 + 1*16^4 + 0*16^3 + 2*16^2 + 5*16 + 7).
C16_ScenarioIndex == ScenarioCall => probe.val = 3211863

C16_Witness == ScenarioCall /\ probe.val = 3211863

\* C17: for given weight tables estimate_value gives the same value on
\* every image of a board under the dihedral group; the eight boards it
\* sums over are the orbit of the board; the board it is called on is left
\* as it was.
C17_D4Invariant ==
    /\ [](probe.fn = "estimate_value" =>
             /\ \A g \in D4 : estimate_value(D4Image(g, tiles), net) = probe.val
             /\ ViewsSummed(tiles) = Orbit(tiles))
    /\ [][probe'.fn = "estimate_value" => tiles' = tiles]_vars

\* loaded tables, a board with eight distinct images whose views
\* contribute different sums
C17_Witness ==
    /\ probe.fn = "estimate_value"
    /\ net.kind = "loaded"
    /\ Cardinality(Orbit(tiles)) = 8
    /\ ViewSum(tiles, net) # ViewSum(reflect_horizontal(tiles), net)
    /\ ViewSum(tiles, net) # ViewSum(rotate_right(tiles), net)

\* C18: with every entry of the four tables equal to 1, estimate_value is
\* 32 on every board (8 views, one lookup in each of the 4 tables).
C18_ThirtyTwoLookups ==
    (probe.fn = "estimate_value" /\ net = [kind |-> "flat", v |-> 1]) =>
        probe.val = 32

C18_Witness ==
    /\ probe.fn = "estimate_value"
    /\ net = [kind |-> "flat", v |-> 1]
    /\ tiles = ScenarioBoard
    /\ probe.val = 32

\* the largest reward + estimate_value over the legal slides of board b
\* (the lowest float when no slide is legal)
LargestOf(S) ==
    IF S = {} THEN [low |-> TRUE]
    ELSE [low |-> FALSE, v |-> CHOOSE m \in S : \A x \in S : x <= m]

SlideWorth(s, nt) == s.reward + estimate_value(s.board, nt)

BestOf(b, nt) == LargestOf({ SlideWorth(slide(b, d), nt) : d \in LegalSlides(b) })

PlusTerm(rest, v2, v4) ==
    [h |-> rest.h + (IF v2.low THEN -9 ELSE 0) + (IF v4.low THEN -1 ELSE 0),
     num |-> rest.num + (IF v2.low THEN 0 ELSE 9 * v2.v)
                      + (IF v4.low THEN 0 ELSE v4.v)]

\* the sum over the positions P of 0.9 * V2(p) + 0.1 * V4(p), in tenths
RECURSIVE SumOfTerms(_, _, _)
SumOfTerms(b, nt, P) ==
    IF P = {} THEN [h |-> 0, num |-> 0]
    ELSE PlusTerm(SumOfTerms(b, nt, P \ { CHOOSE x \in P : TRUE }),
                  BestOf(place_tile(b, CHOOSE x \in P : TRUE, 1), nt),
                  BestOf(place_tile(b, CHOOSE x \in P : TRUE, 2), nt))

Over(sum, den) == Float(sum.h, sum.num, den)

\* C19: expectation(A) is 0 when A has no empty cell, and otherwise the sum
\* over the empty positions p of (0.9 * V2(p) + 0.1 * V4(p)) / E, E the
\* number of empty cells and V2(p), V4(p) the largest reward +
\* estimate_value over the legal slides after tile 1 or 2 is placed at p
\* (the lowest float when no slide is legal); A is left as it was.
C19_Expectation ==
    /\ [](probe.fn = "expectation" =>
             IF EmptyCells(tiles) = {}
             THEN probe.val.h = 0 /\ probe.val.num = 0
             ELSE probe.val = Over(SumOfTerms(tiles, net, EmptyCells(tiles)),
                                   10 * Cardinality(EmptyCells(tiles))))
    /\ [][probe'.fn = "expectation" => tiles' = tiles]_vars

\* one empty cell, weights 0, reward 4 after a 2-tile and 8 after a 4-tile:
\* (0.9 * 4 + 0.1 * 8) / 1 = 4.4
C19_Witness ==
    /\ probe.fn = "expectation"
    /\ tiles = OneGapBoard
    /\ net = [kind |-> "flat", v |-> 0]
    /\ probe.val = Float(0, 44, 10)


\* the nodes whose ucb or ucb_opponent the selection that has just run
\* evaluated (the children of every node of the path it left but the last),
\* and the nodes whose win_rate the final move choice evaluates
EvaluatedNodes ==
    IF pc = "expand"
    THEN { c \in NodeIds : \E k \in 1 .. (Len(path) - 1) : nodes[c].parent = path[k] }
    ELSE IF pc = "final"
    THEN { c \in NodeIds : nodes[c].parent = 1 }
    ELSE {}

\* C21: whenever win_rate, ucb or ucb_opponent is evaluated on a node, in
\* the selection or in the final move choice, no divisor is zero: the
\* node's total_cnt is at least 1, its parent's total_cnt is at least 1
\* and, in the RAVE variant, rave_total[place_pos] is at least 1.
C21_DivisorsNonZero ==
    \A n \in EvaluatedNodes :
        /\ nodes[n].total_cnt >= 1
        /\ nodes[nodes[n].parent].total_cnt >= 1
        /\ variant = "rave" =>
               /\ nodes[n].place_pos \in Pos
               /\ rave_total[nodes[n].place_pos] >= 1

\* the selection of the RAVE variant went down two levels
C21_Witness ==
    /\ variant = "rave"
    /\ pc = "expand"
    /\ Len(path) >= 3
    /\ Cardinality(EvaluatedNodes) >= 3


\* the number of entries of the child list of node p that point to node n
TimesChildOf(n, p) ==
    Cardinality({ k \in 1 .. Len(nodes[p].child) : nodes[p].child[k] = n })

\* C22: after any number of iterations every non-root node's parent link
\* points to the node whose child list contains it, its board is its
\* parent's board with the legal placement at place_pos applied and the
\* turn flipped, and the path of the iteration is a chain that starts at
\* the root, each node a child of the one before it.
C22_TreeShape ==
    /\ \A n \in NodeIds \ {1} :
           LET p == nodes[n].parent
           IN  /\ p \in NodeIds
               /\ \A q \in NodeIds : TimesChildOf(n, q) = (IF q = p THEN 1 ELSE 0)
               /\ PlaceLegal(nodes[p].board, nodes[n].place_pos)
               /\ nodes[n].board = PlaceBoard(nodes[p].board, nodes[n].place_pos)
               /\ nodes[n].board.who = Opponent(nodes[p].board.who)
    /\ (InSearch /\ path # << >>) =>
           /\ path[1] = 1
           /\ \A k \in 1 .. (Len(path) - 1) :
                  /\ nodes[path[k + 1]].parent = path[k]
                  /\ TimesChildOf(path[k + 1], path[k]) = 1

\* a path of three nodes whose last node has just been created, in a tree
\* whose root has several children
C22_Witness ==
    /\ pc = "simulate"
    /\ Len(path) = 3
    /\ path[3] = Len(nodes)
    /\ Len(nodes[1].child) >= 2
    /\ i >= 3


\* C23: in the RAVE variant every index used on rave_total or rave_win
\* during a search lies in 0..80, for every node of every backup path, the
\* root (place_pos -1) included.
C23_TableIndicesInRange == variant = "rave" => ~rave_oob


\* the sums of total_cnt and of win_cnt over the nodes n, n + 1, ... of the
\* tree whose place_pos is p
RECURSIVE TotalAt(_, _)
TotalAt(p, n) ==
    IF n > Len(nodes) THEN 0
    ELSE (IF nodes[n].place_pos = p THEN nodes[n].total_cnt ELSE 0)
         + TotalAt(p, n + 1)

RECURSIVE WinAt(_, _)
WinAt(p, n) ==
    IF n > Len(nodes) THEN 0
    ELSE (IF nodes[n].place_pos = p THEN nodes[n].win_cnt ELSE 0)
         + WinAt(p, n + 1)

\* C24: in the RAVE variant the tables are zero when a take_action call
\* starts its search, and after any number of iterations of the call, for
\* every position p, rave_total[p] is the sum of total_cnt and rave_win[p]
\* the sum of win_cnt over the non-root nodes whose place_pos is p, so
\* that rave_win[p] <= rave_total[p].
C24_TablesMatchTree ==
    (variant = "rave" /\ pc \in {"select", "expand", "simulate", "backprop", "final"}) =>
        /\ (pc = "select" /\ i = 0) => (rave_total = Zeros /\ rave_win = Zeros)
        /\ \A p \in Pos :
               /\ rave_total[p] = TotalAt(p, 2)
               /\ rave_win[p] = WinAt(p, 2)
               /\ rave_win[p] <= rave_total[p]

\* the end of the search of the second call of the game (a stone of the
\* player is on the board, the tables held the first call's counts): two
\* nodes of the tree stand for the same position, which has won a playout
C24_Witness ==
    /\ variant = "rave"
    /\ pc = "final"
    /\ \E q \in Pos : state.cells[q] = who
    /\ \E p \in Pos :
           /\ \E m, n \in NodeIds : m # n /\ nodes[m].place_pos = p
                                          /\ nodes[n].place_pos = p
           /\ rave_win[p] > 0
           /\ rave_total[p] >= 2


\* the number of workers of the team that returned position p from their
\* search
WorkerVotes(p) == Cardinality({ id \in TeamIds : wk[id].vote_move = p })

\* C25: a non-null action returned by the root-parallel take_action holds
\* a position that at least one worker returned from its own search, a
\* legal placement on the input board for the side to move; a result slot
\* no worker wrote contributes no vote (the votes counted for a position
\* are those of the workers).
C25_ReturnedMoveWasVoted ==
    (cpc = "done" /\ wk # << >>) =>
        /\ ret # NullAction =>
               /\ \E id \in TeamIds : wk[id].vote_move = ret.pos
               /\ PlaceLegal(state, ret.pos)
               /\ ret.who = state.who
        /\ \A p \in Pos : Votes(p) = WorkerVotes(p)

====
